---- MODULE Spec2Model ----
(***************************************************************************)
(* Build-chain: the dependency tree of image repositories derived from a   *)
(* list of build configurations (pkg/cmd/experimental/buildchain).         *)
(*                                                                         *)
(* Three components are modelled from buildchain.go:                       *)
(*   getRepos      the Repository Catalog Builder                          *)
(*   findRepoDeps  the Dependency Tree Builder (a recursion, modelled as   *)
(*                 an explicit call stack)                                 *)
(*   dotDump       the directed-graph renderer with its sync.Once flag     *)
(*                                                                         *)
(* Pointers are sequences of length 0 (nil) or 1 (the object pointed to).  *)
(***************************************************************************)
EXTENDS Integers, Sequences, FiniteSets, TLC

VARIABLES
  configs,   \* buildConfigList: the build configurations (heap objects)
  pc,        \* where RunBuildChain is: start, idle, scan, unwind, done, rendered,
             \* error, overflow
  work,      \* repos of RunBuildChain: the <<repo, tags>> entries not yet iterated
  cur,       \* the entry being iterated: <<repo, remaining tags>>
  call,      \* <<repo, tag>> of the top-level findRepoDeps call, <<>> when none
  stack,     \* the call stack of findRepoDeps: one frame per active call
  result,    \* the pointer findRepoDeps returned: <<>> (nil) or <<root>>
  once,      \* TRUE when the package-level sync.Once has fired
  graph,     \* the dot.Graph of the latest render: the AddNode and AddEdge calls
  renders,   \* number of top-level dotDump calls made by this process
  catalog    \* the value of the latest getRepos call: <<>> or <<mapping>>

vars == <<configs, pc, work, cur, call, stack, result, once, graph, renders, catalog>>

(***************************************************************************)
(* Bounds of the model.                                                    *)
(***************************************************************************)
MaxConfigs == 3

(***************************************************************************)
(* The strings of the model.                                               *)
(***************************************************************************)
NamespaceNames == {"ns1", "ns2"}

RepoNames == {"app", "my-db"}

TagNames == {"t1", "t2"}

ImageStreamTag == "ImageStreamTag"

ImageStreamImage == "ImageStreamImage"

\* The names of the build configurations of a list, by position.
ConfigName(i) == "bc" \o ToString(i)

ConfigNames == { ConfigName(i) : i \in 1..MaxConfigs }

\* join(namespace, name): the canonical "namespace/name" of a repository or
\* of a build configuration.
Join(namespace, name) == namespace \o "/" \o name

\* The strings "namespace/name" of the model, each with its two parts.
JoinedNames ==
  [r \in { Join(p[1], p[2]) : p \in NamespaceNames \X (RepoNames \cup ConfigNames) } |->
     CHOOSE p \in NamespaceNames \X (RepoNames \cup ConfigNames) : Join(p[1], p[2]) = r]

\* split(repo): the inverse of join; <<namespace, name, err>>.
Split(repo) ==
  IF repo \in DOMAIN JoinedNames
  THEN <<JoinedNames[repo][1], JoinedNames[repo][2], FALSE>>
  ELSE <<"", "", TRUE>>

\* The strings "name:tag" of the model, each with its two parts.
TaggedNames ==
  [s \in { p[1] \o ":" \o p[2] : p \in RepoNames \X TagNames } |->
     CHOOSE p \in RepoNames \X TagNames : p[1] \o ":" \o p[2] = s]

\* strings.Split(s, ":") on a reference name: <<name, tag>> for "name:tag",
\* the one-element <<s>> when s holds no colon.
StringsSplit(s) ==
  IF s \in DOMAIN TaggedNames THEN TaggedNames[s] ELSE <<s>>

\* buildutil.NameFromImageStream("", from, tag): "namespace/name:tag" of a
\* reference whose Name already carries its tag.
NameFromImageStream(namespace, ref, tag) ==
  LET ns == IF ref.Namespace = "" THEN namespace ELSE ref.Namespace
      bits == StringsSplit(ref.Name)
  IN  IF Len(bits) = 2 THEN ns \o "/" \o ref.Name
      ELSE ns \o "/" \o ref.Name \o ":" \o tag

\* imageapi.ParseDockerImageReference on a reference given as its path
\* segments (the string cut at "/"): one to three segments parse, the last
\* one being "name:tag"; anything else is an error.
ParseDockerImageReference(ref) ==
  IF Len(ref) \in 1..3 /\ Len(StringsSplit(ref[Len(ref)])) = 2
  THEN [Name |-> StringsSplit(ref[Len(ref)])[1],
        Tag  |-> StringsSplit(ref[Len(ref)])[2],
        err  |-> FALSE]
  ELSE [Name |-> "", Tag |-> "", err |-> TRUE]

(***************************************************************************)
(* Build configurations.                                                   *)
(***************************************************************************)
Ref(kind, namespace, name) == <<[Kind |-> kind, Namespace |-> namespace, Name |-> name]>>

OutTo(name, namespace) == <<[Name |-> name, Namespace |-> namespace]>>

Cfg(ns, triggers, from, to, tag, docker) ==
  [Namespace |-> ns, Name |-> "", Triggers |-> triggers, From |-> from,
   To |-> to, Tag |-> tag, DockerImageReference |-> docker]

\* Trigger sources: the strategy's From reference.
FromApp == Ref(ImageStreamTag, "", "app:t1")

FromDb1 == Ref(ImageStreamTag, "ns2", "my-db:t1")

FromDb2 == Ref(ImageStreamTag, "ns2", "my-db:t2")

\* The configurations a list is drawn from.  A trigger is TRUE when its
\* ImageChange field is set.
ConfigShapes ==
  { Cfg("ns1", <<TRUE>>, FromApp, OutTo("my-db", "ns2"), "t1", <<>>),
    Cfg("ns1", <<TRUE>>, FromApp, OutTo("my-db", "ns2"), "t2", <<>>),
    Cfg("ns1", <<FALSE, TRUE, TRUE>>, FromApp, <<>>, "",
        <<"registry.example", "ns2", "my-db:t2">>),
    Cfg("ns1", <<TRUE>>, FromDb1, OutTo("my-db", "ns2"), "t1", <<>>),
    Cfg("ns1", <<TRUE>>, FromDb1, <<>>, "", <<"a", "b", "c", "my-db:t1">>),
    Cfg("ns2", <<TRUE>>, Ref(ImageStreamTag, "", "my-db:t1"), OutTo("my-db", ""), "t2", <<>>),
    Cfg("ns1", <<TRUE>>, FromDb2, OutTo("my-db", "ns2"), "t1", <<>>),
    Cfg("ns1", <<FALSE>>, FromDb2, OutTo("app", "ns1"), "t1", <<>>),
    Cfg("ns1", <<TRUE>>, Ref(ImageStreamImage, "", "app@sha256"), OutTo("my-db", "ns2"), "t1", <<>>),
    Cfg("ns1", <<TRUE>>, <<>>, OutTo("my-db", "ns2"), "t1", <<>>) }

\* A configuration list: configurations of one cluster, named by position.
Named(shapes) ==
  [i \in 1..Len(shapes) |-> [shapes[i] EXCEPT !.Name = ConfigName(i)]]

ConfigLists ==
  UNION { { Named(s) : s \in [1..n -> ConfigShapes] } : n \in 0..MaxConfigs }

(***************************************************************************)
(* Trees.                                                                  *)
(***************************************************************************)
ImageRepo(fullName, tags) ==
  [FullName |-> fullName, Tags |-> tags, Edges |-> <<>>, Children |-> <<>>]

NewEdge(fullname, to) == [FullName |-> fullname, To |-> to]

\* treeSize: the number of nodes of a tree.
RECURSIVE TreeSize(_)
TreeSize(root) ==
  LET RECURSIVE Sum(_)
      Sum(i) == IF i = 0 THEN 0 ELSE TreeSize(root.Children[i]) + Sum(i - 1)
  IN  1 + Sum(Len(root.Children))

(***************************************************************************)
(* findRepoDeps.                                                           *)
(***************************************************************************)
\* buildutil.GetImageStreamForStrategy(&cfg): the From pointer of the strategy.
GetImageStreamForStrategy(cfg) == cfg.From

\* A guard that forgets to look at the kind of the trigger.
SkipTriggerAnyKind(cfg, ti) ==
  LET from == GetImageStreamForStrategy(cfg)
  IN  from = <<>> \/ from[1].Kind # ImageStreamTag

\* The guard that skips a trigger.
SkipTrigger(cfg, ti) ==
  LET from == GetImageStreamForStrategy(cfg)
  IN  from = <<>> \/ from[1].Kind # ImageStreamTag \/ ~cfg.Triggers[ti]

\* "Setup zeroed fields to their default values": the write goes through the
\* From pointer, into the configuration of the list.
DefaultNamespace(cfgs, ci) ==
  IF cfgs[ci].From[1].Namespace = ""
  THEN [cfgs EXCEPT ![ci].From[1].Namespace = cfgs[ci].Namespace]
  ELSE cfgs

\* The key a (defaulted) source is compared with.
SourceKey(cfg) ==
  LET from == cfg.From[1]
      fromTag == StringsSplit(from.Name)[2]
  IN  NameFromImageStream("", from, fromTag)

ParentRepo(namespace, name, tag) == namespace \o "/" \o name \o ":" \o tag

\* The loop over configurations and triggers, run from iteration (ci, ti) up
\* to the next trigger that matches parentRepo, or to the end of the list.
RECURSIVE ScanFrom(_, _, _, _)
ScanFrom(cfgs, parentRepo, ci, ti) ==
  IF ci > Len(cfgs)
  THEN [cfgs |-> cfgs, ci |-> ci, ti |-> 1, found |-> FALSE]
  ELSE IF ti > Len(cfgs[ci].Triggers)
  THEN ScanFrom(cfgs, parentRepo, ci + 1, 1)
  ELSE IF SkipTrigger(cfgs[ci], ti)
  THEN ScanFrom(cfgs, parentRepo, ci, ti + 1)
  ELSE LET d == DefaultNamespace(cfgs, ci)
       IN  IF SourceKey(d[ci]) = parentRepo
           THEN [cfgs |-> d, ci |-> ci, ti |-> ti, found |-> TRUE]
           ELSE ScanFrom(d, parentRepo, ci, ti + 1)

\* The output of a matching configuration: To and Tag, or the parsed
\* DockerImageReference.
ResolveOutput(cfg) ==
  IF cfg.To # <<>> /\ cfg.To[1].Name # ""
  THEN [childName |-> cfg.To[1].Name,
        childTag |-> cfg.Tag,
        childNamespace |-> IF cfg.To[1].Namespace # ""
                           THEN cfg.To[1].Namespace ELSE cfg.Namespace,
        err |-> FALSE]
  ELSE LET ref == ParseDockerImageReference(cfg.DockerImageReference)
       IN  [childName |-> ref.Name, childTag |-> ref.Tag,
            childNamespace |-> cfg.Namespace, err |-> ref.err]

\* An edge recorded only for a child not yet pointed at.
AddEdgeOnce(edges, cfg, child) ==
  IF \E k \in 1..Len(edges) : edges[k].To = child.FullName THEN edges
  ELSE Append(edges, NewEdge(Join(cfg.Namespace, cfg.Name), child.FullName))

\* The edge recorded for a returned child.
AddEdge(edges, cfg, child) ==
  Append(edges, NewEdge(Join(cfg.Namespace, cfg.Name), child.FullName))

\* A merge that discards the duplicate together with its tags.
MergeChildDropTags(children, child) ==
  IF \E i \in 1..Len(children) : children[i].FullName = child.FullName
  THEN children
  ELSE Append(children, child)

\* A merge in which the latest child replaces the entry already there.
MergeChildLastWins(children, child) ==
  IF \E i \in 1..Len(children) : children[i].FullName = child.FullName
  THEN LET i == CHOOSE i \in 1..Len(children) : children[i].FullName = child.FullName
       IN  [children EXCEPT ![i] = [child EXCEPT !.Tags = children[i].Tags \o child.Tags]]
  ELSE Append(children, child)

\* A returned child enters Children once: a child of the same FullName only
\* passes its tags to the entry already there.
MergeChild(children, child) ==
  IF \E i \in 1..Len(children) : children[i].FullName = child.FullName
  THEN LET i == CHOOSE i \in 1..Len(children) :
                  /\ children[i].FullName = child.FullName
                  /\ \A j \in 1..(i - 1) : children[j].FullName # child.FullName
       IN  [children EXCEPT ![i].Tags = children[i].Tags \o child.Tags]
  ELSE Append(children, child)

\* The frame of a call findRepoDeps(repo, tag, buildConfigList).
Frame(repo, tag) ==
  [root |-> ImageRepo(repo, <<tag>>),
   namespace |-> Split(repo)[1], name |-> Split(repo)[2], tag |-> tag,
   ci |-> 1, ti |-> 1]

Top == stack[Len(stack)]

TopScan == ScanFrom(configs, ParentRepo(Top.namespace, Top.name, Top.tag), Top.ci, Top.ti)

\* The keys some configuration of the model watches.
WatchedKeys ==
  { NameFromImageStream(c.Namespace, c.From[1], "") :
      c \in { c \in ConfigShapes : c.From # <<>> /\ c.From[1].Kind = ImageStreamTag } }

\* The deepest recursion the model follows.  Every call that makes a
\* recursive call has a watched key, so a chain of calls without a repeated
\* key holds at most one frame more than there are watched keys: a deeper
\* stack holds a key twice, and the recursion below it never ends.
MaxDepth == Cardinality(WatchedKeys) + 1

(***************************************************************************)
(* getRepos.                                                               *)
(***************************************************************************)
\* An append without the membership check.
AddTag(m, repo, tag) ==
  LET prev == IF repo \in DOMAIN m THEN m[repo] ELSE <<>>
  IN  [r \in DOMAIN m \cup {repo} |-> IF r = repo THEN Append(prev, tag) ELSE m[r]]

\* avoidDuplicates[repo] = append(avoidDuplicates[repo], tag) when tag is
\* not yet among avoidDuplicates[repo].
AddUniqueTag(m, repo, tag) ==
  LET prev == IF repo \in DOMAIN m THEN m[repo] ELSE <<>>
      uniqueTag == \A i \in 1..Len(prev) : prev[i] # tag
  IN  IF ~uniqueTag THEN m
      ELSE [r \in DOMAIN m \cup {repo} |-> IF r = repo THEN Append(prev, tag) ELSE m[r]]

\* The condition under which a trigger of cfg contributes to the catalog.
IsWatched(cfg, ti) ==
  LET from == GetImageStreamForStrategy(cfg)
  IN  /\ cfg.Triggers[ti]
      /\ from # <<>>
      /\ from[1].Name # ""
      /\ from[1].Kind = ImageStreamTag

\* The repository a watched source names.
WatchedRepo(cfg) ==
  LET from == cfg.From[1]
      name == StringsSplit(from.Name)[1]
  IN  IF from.Namespace = "" THEN Join(cfg.Namespace, name)
      ELSE Join(from.Namespace, name)

RECURSIVE GetReposFrom(_, _, _, _)
GetReposFrom(cfgs, ci, ti, m) ==
  IF ci > Len(cfgs) THEN m
  ELSE IF ti > Len(cfgs[ci].Triggers) THEN GetReposFrom(cfgs, ci + 1, 1, m)
  ELSE IF IsWatched(cfgs[ci], ti)
  THEN GetReposFrom(cfgs, ci, ti + 1,
                    AddUniqueTag(m, WatchedRepo(cfgs[ci]),
                                 StringsSplit(cfgs[ci].From[1].Name)[2]))
  ELSE GetReposFrom(cfgs, ci, ti + 1, m)

GetRepos(cfgs) == GetReposFrom(cfgs, 1, 1, <<>>)

(***************************************************************************)
(* dotDump.                                                                *)
(***************************************************************************)
\* validDOT: the identifier of a name, every character the DOT grammar
\* refuses replaced.
ValidDOT(name) == IF name = "my-db" THEN "my_db" ELSE name

\* setLabel: the label of a node or an edge; tag is "" when none is embedded.
SetLabel(name, namespace, tag) == [namespace |-> namespace, name |-> name, tag |-> tag]

\* A label that takes the tag of every node.
OnceDoEveryNode(fired, tags) ==
  [tag |-> tags[1], fired |-> TRUE]

\* once.Do(func() { tag = root.Tags[0] }): the tag the closure leaves, and
\* the state of the Once afterwards.
OnceDo(fired, tags) ==
  [tag |-> IF fired THEN "" ELSE tags[1], fired |-> TRUE]

EmptyGraph == [nodes |-> <<>>, edges |-> <<>>]

\* An inner loop that stops at the first edge of the child.
DotEdgesFirst(g, root, child, k) ==
  IF \E j \in k..Len(root.Edges) : child.FullName = root.Edges[j].To
  THEN LET j == CHOOSE j \in k..Len(root.Edges) :
                  /\ child.FullName = root.Edges[j].To
                  /\ \A i \in k..(j - 1) : child.FullName # root.Edges[i].To
           e == Split(root.Edges[j].FullName)
           edge == [src |-> ValidDOT(Split(root.FullName)[2]),
                    dst |-> ValidDOT(Split(child.FullName)[2]),
                    label |-> SetLabel(ValidDOT(e[2]), e[1], "")]
       IN  [g EXCEPT !.edges = Append(@, edge)]
  ELSE g

\* The inner loop over root.Edges for one child.
RECURSIVE DotEdges(_, _, _, _)
DotEdges(g, root, child, k) ==
  IF k > Len(root.Edges) THEN g
  ELSE IF child.FullName = root.Edges[k].To
  THEN LET rootName == ValidDOT(Split(root.FullName)[2])
           childName == ValidDOT(Split(child.FullName)[2])
           e == Split(root.Edges[k].FullName)
           edge == [src |-> rootName, dst |-> childName,
                    label |-> SetLabel(ValidDOT(e[2]), e[1], "")]
       IN  DotEdges([g EXCEPT !.edges = Append(@, edge)], root, child, k + 1)
  ELSE DotEdges(g, root, child, k + 1)

\* dotDump(root, g, graphName) with the Once in state fired: the graph
\* after the call.
RECURSIVE DotDump(_, _, _)
DotDump(root, g, fired) ==
  LET rootNamespace == Split(root.FullName)[1]
      rootName == Split(root.FullName)[2]
      tag == OnceDo(fired, root.Tags).tag
      node == [name |-> ValidDOT(rootName),
               label |-> SetLabel(rootName, rootNamespace, tag)]
      RECURSIVE Kids(_, _)
      Kids(i, acc) ==
        IF i > Len(root.Children) THEN acc
        ELSE Kids(i + 1,
                  DotDump(root.Children[i],
                          DotEdges(acc, root, root.Children[i], 1),
                          OnceDo(fired, root.Tags).fired))
  IN  Kids(1, [g EXCEPT !.nodes = Append(@, node)])

(***************************************************************************)
(* RunBuildChain.                                                          *)
(***************************************************************************)
InitWith(lists) ==
  /\ configs \in lists
  /\ pc = "start"
  /\ work = {}
  /\ cur = <<"", <<>>>>
  /\ call = <<>>
  /\ stack = <<>>
  /\ result = <<>>
  /\ once = FALSE
  /\ graph = EmptyGraph
  /\ renders = 0
  /\ catalog = <<>>

Init == InitWith(ConfigLists)

\* repos = getRepos(buildConfigList); an empty mapping ends the command.
SelectAll ==
  /\ pc = "start"
  /\ LET m == GetRepos(configs)
     IN  /\ catalog' = <<m>>
         /\ work' = { <<r, m[r]>> : r \in DOMAIN m }
         /\ pc' = IF DOMAIN m = {} THEN "error" ELSE "idle"
  /\ UNCHANGED <<configs, cur, call, stack, result, once, graph, renders>>

\* repos[repo] = tags, for the repository and tags the user named.
SelectUser(repo, tags) ==
  /\ pc = "start"
  /\ work' = { <<repo, tags>> }
  /\ pc' = "idle"
  /\ UNCHANGED <<configs, cur, call, stack, result, once, graph, renders, catalog>>

\* root, err := findRepoDeps(repo, tag, buildConfigList)
FindRepoDeps(repo, tag) ==
  /\ ~Split(repo)[3]
  /\ call' = <<repo, tag>>
  /\ stack' = <<Frame(repo, tag)>>
  /\ result' = <<>>
  /\ graph' = EmptyGraph
  /\ pc' = "scan"
  /\ UNCHANGED <<configs, once, renders, catalog>>

\* The loops "for repo, tags := range repos" and "for _, tag := range tags":
\* the next tag of the entry in progress, or the first tag of any entry not
\* yet iterated.
StartBuild ==
  /\ pc = "idle"
  /\ \/ /\ cur[2] # <<>>
        /\ FindRepoDeps(cur[1], Head(cur[2]))
        /\ cur' = <<cur[1], Tail(cur[2])>>
        /\ UNCHANGED work
     \/ /\ cur[2] = <<>>
        /\ \E g \in work :
             /\ FindRepoDeps(g[1], Head(g[2]))
             /\ cur' = <<g[1], Tail(g[2])>>
             /\ work' = work \ {g}

\* A recursive call made on the repository and tag of the caller instead of
\* the child's.
RecurseOnParent ==
  /\ pc = "scan"
  /\ \E s \in {TopScan} :
      /\ s.found
      /\ ~ResolveOutput(s.cfgs[s.ci]).err
      /\ Len(stack) < MaxDepth
      /\ configs' = s.cfgs
      /\ stack' = Append([stack EXCEPT ![Len(stack)].ci = s.ci,
                                       ![Len(stack)].ti = s.ti],
                         Frame(Top.root.FullName, Top.tag))
      /\ UNCHANGED <<pc, work, cur, call, result, once, graph, renders, catalog>>

\* The scan reaches a matching trigger whose output resolves: the recursive
\* call findRepoDeps(childRepo, childTag, buildConfigList).
Recurse ==
  /\ pc = "scan"
  /\ \E s \in {TopScan} :
      /\ s.found
      /\ LET out == ResolveOutput(s.cfgs[s.ci])
         IN  /\ ~out.err
             /\ Len(stack) < MaxDepth
             /\ configs' = s.cfgs
             /\ stack' = Append([stack EXCEPT ![Len(stack)].ci = s.ci,
                                              ![Len(stack)].ti = s.ti],
                                Frame(Join(out.childNamespace, out.childName), out.childTag))
      /\ UNCHANGED <<pc, work, cur, call, result, once, graph, renders, catalog>>

\* The recursion outgrows the stack: the calls never return.
Overflow ==
  /\ pc = "scan"
  /\ \E s \in {TopScan} :
      /\ s.found
      /\ ~ResolveOutput(s.cfgs[s.ci]).err
      /\ Len(stack) = MaxDepth
      /\ configs' = s.cfgs
      /\ pc' = "overflow"
      /\ UNCHANGED <<work, cur, call, stack, result, once, graph, renders, catalog>>

\* A parse failure that is skipped over instead of returned.
ParseFailContinue ==
  /\ pc = "scan"
  /\ \E s \in {TopScan} :
      /\ s.found
      /\ ResolveOutput(s.cfgs[s.ci]).err
      /\ configs' = s.cfgs
      /\ stack' = [stack EXCEPT ![Len(stack)].ci = s.ci, ![Len(stack)].ti = s.ti + 1]
      /\ UNCHANGED <<pc, work, cur, call, result, once, graph, renders, catalog>>

\* The scan reaches a matching trigger whose DockerImageReference does not
\* parse: return nil, err.
ParseFail ==
  /\ pc = "scan"
  /\ \E s \in {TopScan} :
      /\ s.found
      /\ ResolveOutput(s.cfgs[s.ci]).err
      /\ configs' = s.cfgs
      /\ pc' = "unwind"
      /\ UNCHANGED <<work, cur, call, stack, result, once, graph, renders, catalog>>

\* The scan reaches the end of the list: return root, nil.  The caller
\* records the edge, merges the child and goes on with its next trigger.
Return ==
  /\ pc = "scan"
  /\ \E s \in {TopScan} :
      /\ ~s.found
      /\ configs' = s.cfgs
      /\ IF Len(stack) = 1
         THEN /\ result' = <<Top.root>>
              /\ stack' = <<>>
              /\ pc' = "done"
         ELSE LET child == Top.root
                  p == stack[Len(stack) - 1]
                  cfg == configs[p.ci]
                  root == [p.root EXCEPT
                             !.Edges = AddEdge(p.root.Edges, cfg, child),
                             !.Children = MergeChild(p.root.Children, child)]
              IN  /\ stack' = Append(SubSeq(stack, 1, Len(stack) - 2),
                                     [p EXCEPT !.root = root, !.ti = p.ti + 1])
                  /\ UNCHANGED <<result, pc>>
      /\ UNCHANGED <<work, cur, call, once, graph, renders, catalog>>

\* A call returns nil, err to its caller, which returns nil, err in turn;
\* RunBuildChain returns the error.
Unwind ==
  /\ pc = "unwind"
  /\ stack' = SubSeq(stack, 1, Len(stack) - 1)
  /\ pc' = IF Len(stack) = 1 THEN "error" ELSE "unwind"
  /\ result' = <<>>
  /\ UNCHANGED <<configs, work, cur, call, once, graph, renders, catalog>>

\* treeSize(root) < 2: "has no dependencies", continue with the next tag.
NoDependencies ==
  /\ pc = "done"
  /\ TreeSize(result[1]) < 2
  /\ pc' = "idle"
  /\ UNCHANGED <<configs, work, cur, call, stack, result, once, graph, renders, catalog>>

\* Output "dot": a new graph and dotDump(root, g, graphName).
Render ==
  /\ pc = "done"
  /\ ~(TreeSize(result[1]) < 2)
  /\ graph' = DotDump(result[1], EmptyGraph, once)
  /\ once' = OnceDo(once, result[1].Tags).fired
  /\ renders' = renders + 1
  /\ pc' = "rendered"
  /\ UNCHANGED <<configs, work, cur, call, stack, result, catalog>>

\* The output is printed; the loop goes on with the next tag.
Printed ==
  /\ pc = "rendered"
  /\ pc' = "idle"
  /\ UNCHANGED <<configs, work, cur, call, stack, result, once, graph, renders, catalog>>

\* The selections of the user: a repository and one tag, or a repository
\* and all the tags of its image stream, in the order a map yields them.
UserSelections ==
  { <<"ns1/app", <<"t1">>>>, <<"ns2/my-db", <<"t2", "t1">>>> }

Next ==
  \/ SelectAll
  \/ \E u \in UserSelections : SelectUser(u[1], u[2])
  \/ StartBuild
  \/ Recurse
  \/ Overflow
  \/ ParseFail
  \/ Return
  \/ Unwind
  \/ NoDependencies
  \/ Render
  \/ Printed

Spec == Init /\ [][Next]_vars

\* The command is one sequential program: it keeps taking steps while it has
\* one to take.
FairSpec == Spec /\ WF_vars(Next)

(***************************************************************************)
(* What the configurations say, read off the list directly.                *)
(***************************************************************************)
\* The namespace of the source of cfg after defaulting.
SourceNamespace(cfg) ==
  IF cfg.From[1].Namespace = "" THEN cfg.Namespace ELSE cfg.From[1].Namespace

\* Trigger ti of cfg is an image-change trigger on the mutable tag
\* repo:tag.
Watches(cfg, ti, repo, tag) ==
  /\ cfg.Triggers[ti]
  /\ cfg.From # <<>>
  /\ cfg.From[1].Kind = ImageStreamTag
  /\ cfg.From[1].Name \in DOMAIN TaggedNames
  /\ TaggedNames[cfg.From[1].Name][2] = tag
  /\ repo = SourceNamespace(cfg) \o "/" \o TaggedNames[cfg.From[1].Name][1]

\* All <<configuration, trigger>> positions of a list, in scan order.
RECURSIVE Positions(_, _)
Positions(cfgs, ci) ==
  IF ci > Len(cfgs) THEN <<>>
  ELSE [ti \in 1..Len(cfgs[ci].Triggers) |-> <<ci, ti>>] \o Positions(cfgs, ci + 1)

\* The positions whose trigger watches repo:tag, in scan order.
MatchingPairs(cfgs, repo, tag) ==
  LET W(p) == Watches(cfgs[p[1]], p[2], repo, tag)
  IN  SelectSeq(Positions(cfgs, 1), W)

\* The nodes of a tree.
RECURSIVE SubTrees(_)
SubTrees(t) ==
  {t} \cup UNION { SubTrees(t.Children[i]) : i \in 1..Len(t.Children) }

\* A tree has been returned by the latest findRepoDeps call.
Built == result # <<>>

(***************************************************************************)
(* C1  Merge invariant: in a returned tree no two Children of a node have  *)
(* the same FullName, and the Tags of a child are the output tags of the   *)
(* triggers of the node's key that resolve to that child, in scan order,   *)
(* duplicates kept.                                                        *)
(***************************************************************************)
TagsFor(cfgs, n, childName) ==
  LET M == MatchingPairs(cfgs, n.FullName, n.Tags[1])
      out(p) == ResolveOutput(cfgs[p[1]])
      Hits(p) == Join(out(p).childNamespace, out(p).childName) = childName
      H == SelectSeq(M, Hits)
  IN  [k \in 1..Len(H) |-> out(H[k]).childTag]

MergeInvariant ==
  Built =>
    \A n \in SubTrees(result[1]) :
      /\ \A i, j \in 1..Len(n.Children) :
           n.Children[i].FullName = n.Children[j].FullName => i = j
      /\ \A i \in 1..Len(n.Children) :
           n.Children[i].Tags = TagsFor(configs, n, n.Children[i].FullName)

MergeWitness ==
  /\ Built
  /\ \E n \in SubTrees(result[1]) : \E i \in 1..Len(n.Children) :
       /\ Len(n.Children[i].Tags) >= 2
       /\ n.Children[i].Tags[1] # n.Children[i].Tags[2]
       /\ Len(n.Children) >= 2

(***************************************************************************)
(* C2  Edge completeness: every node of a returned tree has one edge per   *)
(* <<configuration, image-change trigger>> pair that watches the node's    *)
(* key, merged children included.                                          *)
(***************************************************************************)
EdgeCompleteness ==
  Built =>
    \A n \in SubTrees(result[1]) :
      Len(n.Edges) = Len(MatchingPairs(configs, n.FullName, n.Tags[1]))

EdgeWitness ==
  /\ Built
  /\ \E n \in SubTrees(result[1]) :
       /\ Len(n.Edges) > Len(n.Children)
       /\ Len(n.Children) >= 1

(***************************************************************************)
(* C3  Leaf rule: the returned tree has size 1, with no child and no edge, *)
(* exactly when no image-change trigger watches the root's key; such a     *)
(* tree is never rendered.                                                 *)
(***************************************************************************)
LeafRule ==
  Built =>
    LET root == result[1]
        unwatched == MatchingPairs(configs, call[1], call[2]) = <<>>
    IN  /\ (TreeSize(root) = 1) <=> unwatched
        /\ unwatched => root.Children = <<>> /\ root.Edges = <<>>
        /\ unwatched => graph = EmptyGraph /\ pc # "rendered"

LeafWitness ==
  /\ Built
  /\ pc = "idle"
  /\ TreeSize(result[1]) = 1
  /\ configs # <<>>

(***************************************************************************)
(* The trigger relation between keys <<repository, tag>>.                  *)
(***************************************************************************)
\* cfg has no explicit output name and its combined reference does not parse.
Malformed(cfg) ==
  /\ (IF cfg.To = <<>> THEN TRUE ELSE cfg.To[1].Name = "")
  /\ ParseDockerImageReference(cfg.DockerImageReference).err

\* The keys k leads to: the outputs of the configurations that watch k.
Successors(cfgs, k) ==
  LET W == { i \in 1..Len(cfgs) :
               /\ \E ti \in 1..Len(cfgs[i].Triggers) : Watches(cfgs[i], ti, k[1], k[2])
               /\ ~Malformed(cfgs[i]) }
      out(i) == ResolveOutput(cfgs[i])
  IN  { <<Join(out(i).childNamespace, out(i).childName), out(i).childTag>> : i \in W }

RECURSIVE Closure(_, _)
Closure(cfgs, S) ==
  LET T == S \cup UNION { Successors(cfgs, k) : k \in S }
  IN  IF T = S THEN S ELSE Closure(cfgs, T)

\* The keys reached from k, k included.
ReachFrom(cfgs, k) == Closure(cfgs, {k})

\* A cycle of the trigger relation is reachable from k.
CycleReachable(cfgs, k) ==
  \E c \in ReachFrom(cfgs, k) : c \in Closure(cfgs, Successors(cfgs, c))

\* A configuration with a malformed output watches a key reached from k.
MalformedReachable(cfgs, k) ==
  \E c \in ReachFrom(cfgs, k) :
    LET M == MatchingPairs(cfgs, c[1], c[2])
    IN  \E i \in 1..Len(M) : Malformed(cfgs[M[i][1]])

\* The number of keys on the longest trigger chain from k (no cycle from k).
RECURSIVE ChainLength(_, _)
ChainLength(cfgs, k) ==
  LET S == Successors(cfgs, k)
      L == { ChainLength(cfgs, c) : c \in S }
  IN  IF S = {} THEN 1 ELSE 1 + CHOOSE m \in L : \A x \in L : x <= m

(***************************************************************************)
(* C4  Termination, as stated: without a reachable cycle the recursion is  *)
(* no deeper than the longest trigger chain; with a reachable cycle the    *)
(* call neither returns nor reports an error.                              *)
(***************************************************************************)
CycleNeverReturns ==
  (call # <<>> /\ CycleReachable(configs, call)) =>
    pc \in {"scan", "overflow"}

(***************************************************************************)
(* C4 as amended: without a reachable cycle the call returns, after a      *)
(* recursion no deeper than the longest trigger chain; with a              *)
(* reachable cycle no tree is ever returned: the call recurses for ever,   *)
(* or returns the error of a malformed output reference it met first.      *)
(***************************************************************************)
RecursionBound ==
  /\ (Built \/ pc = "overflow" \/ (call # <<>> /\ pc \in {"unwind", "error"})) =>
       IF CycleReachable(configs, call)
       THEN /\ ~Built
            /\ pc \in {"unwind", "error"} => MalformedReachable(configs, call)
       ELSE pc # "overflow"
  /\ Len(stack) >= 2 =>
       \/ CycleReachable(configs, call)
       \/ Len(stack) <= ChainLength(configs, call)

\* Every call comes to an end: a tree, an error, or a recursion without end,
\* which RecursionBound allows only when a cycle is reachable.
BoundedRecursion ==
  /\ []RecursionBound
  /\ (pc \in {"scan", "unwind"}) ~> (pc \in {"done", "error", "overflow"})

BoundedRecursionWitness ==
  /\ call # <<>>
  /\ CycleReachable(configs, call)
  /\ pc = "error"

(***************************************************************************)
(* C5  Malformed output reference: a call that meets, at any depth, a      *)
(* matching configuration whose output reference does not parse returns    *)
(* an error and no tree, whatever had been built; a malformed reference    *)
(* on a key the recursion never reaches causes no error.                   *)
(***************************************************************************)
MalformedOutcome ==
  /\ Built => ~MalformedReachable(configs, call)
  /\ (call # <<>> /\ pc \in {"unwind", "error"}) =>
       /\ result = <<>>
       /\ MalformedReachable(configs, call)

\* The scan of the current call has come to a matching configuration whose
\* output reference does not parse.
MalformedMet ==
  /\ pc = "scan"
  /\ TopScan.found
  /\ ResolveOutput(TopScan.cfgs[TopScan.ci]).err

MalformedIsFatal ==
  /\ []MalformedOutcome
  /\ [][MalformedMet => pc' = "unwind" /\ result' = <<>>]_vars
  /\ [][pc = "unwind" =>
         /\ result' = <<>>
         /\ Len(stack') = Len(stack) - 1
         /\ pc' = IF stack' = <<>> THEN "error" ELSE "unwind"]_vars

MalformedWitness ==
  /\ pc = "unwind"
  /\ Len(stack) >= 2
  /\ stack[1].root.Children # <<>>

(***************************************************************************)
(* C9  Read-only input: no step of getRepos or findRepoDeps changes a      *)
(* field of a configuration of the list.                                   *)
(***************************************************************************)
ConfigsReadOnly == [][configs' = configs]_vars

(***************************************************************************)
(* C10  First-discovered subtree survives: when a returned child has the   *)
(* FullName of an entry of Children, that entry keeps its Children and     *)
(* Edges and gains the tags of the returned child, which is discarded; no  *)
(* other entry changes.                                                    *)
(***************************************************************************)
MergingReturn ==
  /\ pc = "scan"
  /\ Len(stack) >= 2
  /\ Len(stack') = Len(stack) - 1
  /\ \E i \in 1..Len(stack[Len(stack) - 1].root.Children) :
       stack[Len(stack) - 1].root.Children[i].FullName = Top.root.FullName

FirstSubtreeSurvives ==
  [][MergingReturn =>
       LET old == stack[Len(stack) - 1].root.Children
           new == stack'[Len(stack')].root.Children
           dup == Top.root
       IN  /\ Len(new) = Len(old)
           /\ \A i \in 1..Len(old) :
                IF old[i].FullName = dup.FullName
                THEN /\ new[i].Children = old[i].Children
                     /\ new[i].Edges = old[i].Edges
                     /\ new[i].Tags = old[i].Tags \o dup.Tags
                ELSE new[i] = old[i]]_vars

\* A merged child carries a second tag that is watched, and has nothing
\* below it.
FirstSubtreeWitness ==
  /\ Built
  /\ \E c \in { result[1].Children[i] : i \in 1..Len(result[1].Children) } :
       /\ Len(c.Tags) >= 2
       /\ c.Children = <<>>
       /\ MatchingPairs(configs, c.FullName, c.Tags[2]) # <<>>

(***************************************************************************)
(* C6  Catalog: getRepos returns a key "namespace/name" exactly for the    *)
(* repositories named by the mutable-tag source of a configuration with    *)
(* an image-change trigger, the namespace being the source's when set and  *)
(* the configuration's otherwise; the tags of a key are the tags of those  *)
(* sources, each once, in the order they are first met.  Immutable sources *)
(* give nothing and an empty list gives an empty mapping.                  *)
(***************************************************************************)
\* The <<repository, tag>> of every image-change trigger on a mutable tag,
\* in scan order.
WatchedSeq(cfgs) ==
  LET IsIct(p) ==
        /\ cfgs[p[1]].Triggers[p[2]]
        /\ cfgs[p[1]].From # <<>>
        /\ cfgs[p[1]].From[1].Kind = ImageStreamTag
      P == SelectSeq(Positions(cfgs, 1), IsIct)
  IN  [k \in 1..Len(P) |->
         LET cfg == cfgs[P[k][1]]
             nt == TaggedNames[cfg.From[1].Name]
         IN  <<SourceNamespace(cfg) \o "/" \o nt[1], nt[2]>>]

FirstIndex(seq, x) == CHOOSE i \in 1..Len(seq) : seq[i] = x /\ \A j \in 1..(i - 1) : seq[j] # x

CatalogCorrect ==
  catalog # <<>> =>
    LET m == catalog[1]
        W == WatchedSeq(configs)
    IN  /\ DOMAIN m = { W[k][1] : k \in 1..Len(W) }
        /\ configs = <<>> => DOMAIN m = {}
        /\ \A r \in DOMAIN m :
             /\ \A i, j \in 1..Len(m[r]) : m[r][i] = m[r][j] => i = j
             /\ { m[r][i] : i \in 1..Len(m[r]) } =
                  { W[k][2] : k \in { k \in 1..Len(W) : W[k][1] = r } }
             /\ \A i, j \in 1..Len(m[r]) :
                  i < j => FirstIndex(W, <<r, m[r][i]>>) < FirstIndex(W, <<r, m[r][j]>>)

CatalogWitness ==
  /\ catalog # <<>>
  /\ \E r \in DOMAIN catalog[1] : catalog[1][r] = <<"t2", "t1">>
  /\ \E i \in 1..Len(configs) :
       configs[i].From # <<>> /\ configs[i].From[1].Kind = ImageStreamImage

(***************************************************************************)
(* C7  One-shot tag: over all the renders of a process only the first node *)
(* ever given to dotDump, the root of the first rendered tree, has its     *)
(* first tag in its label; the Once stays fired from the first render on.  *)
(***************************************************************************)
OneShotTag ==
  /\ once <=> renders > 0
  /\ graph # EmptyGraph =>
       /\ \A i \in 1..Len(graph.nodes) :
            (graph.nodes[i].label.tag # "") <=> (renders = 1 /\ i = 1)
       /\ renders = 1 => graph.nodes[1].label.tag = result[1].Tags[1]

OneShotWitness ==
  /\ renders = 2
  /\ Len(graph.nodes) >= 2
  /\ graph.nodes[1].label.name = "my-db"

(***************************************************************************)
(* C8  Rendered edges: dotDump adds one graph edge per entry of the Edges  *)
(* of every node, from the node to the child the entry names, labelled     *)
(* with the configuration; every entry names exactly one member of         *)
(* Children, so parallel edges are kept.                                   *)
(***************************************************************************)
RECURSIVE ExpectedEdges(_)
ExpectedEdges(t) ==
  LET own == [k \in 1..Len(t.Edges) |->
                [src |-> ValidDOT(JoinedNames[t.FullName][2]),
                 dst |-> ValidDOT(JoinedNames[t.Edges[k].To][2]),
                 label |-> [namespace |-> JoinedNames[t.Edges[k].FullName][1],
                            name |-> ValidDOT(JoinedNames[t.Edges[k].FullName][2]),
                            tag |-> ""]]]
      RECURSIVE Below(_)
      Below(i) == IF i > Len(t.Children) THEN <<>>
                  ELSE ExpectedEdges(t.Children[i]) \o Below(i + 1)
  IN  own \o Below(1)

Count(seq, x) == Cardinality({ i \in 1..Len(seq) : seq[i] = x })

SameBag(s, t) ==
  /\ Len(s) = Len(t)
  /\ \A i \in 1..Len(s) : Count(s, s[i]) = Count(t, s[i])

RenderedEdges ==
  graph # EmptyGraph =>
    /\ SameBag(graph.edges, ExpectedEdges(result[1]))
    /\ \A n \in SubTrees(result[1]) : \A k \in 1..Len(n.Edges) :
         Cardinality({ i \in 1..Len(n.Children) : n.Children[i].FullName = n.Edges[k].To }) = 1

RenderedEdgesWitness ==
  /\ graph # EmptyGraph
  /\ \E i, j \in 1..Len(graph.edges) :
       /\ graph.edges[i].src = graph.edges[j].src
       /\ graph.edges[i].dst = graph.edges[j].dst
       /\ graph.edges[i].label # graph.edges[j].label
  /\ \E i \in 1..Len(graph.edges) : graph.edges[i].src # graph.edges[1].src

====
